---- MODULE Spec2Model ----
(***************************************************************************)
(* Model of the wp-mini Wattpad client: the field enums and their         *)
(* serialization (src/field), the request builder with its field gate and *)
(* endpoint check, the response handling and error mapping (src/client.rs,*)
(* src/error.rs), login/logout and the shared authentication flag.        *)
(***************************************************************************)
EXTENDS Integers, Sequences, FiniteSets, TLC

VARIABLES heap, client, task

vars == <<heap, client, task>>

(***************************************************************************)
(* Bounds                                                                  *)
(***************************************************************************)
\* longest caller-supplied field list
MaxSel == 2
\* most query parameters one builder accumulates
MaxParams == 2
\* most cookies a login response carries
MaxCookies == 2
\* number of callers that run concurrently in SpecConc
NumTasks == 2

Range(s) == {s[i] : i \in 1..Len(s)}

SeqsUpTo(S, n) == UNION {[1..k -> S] : k \in 0..n}

(***************************************************************************)
(* Field enums (src/field/*.rs).  A field value is a record                *)
(*   [kind |-> enum, name |-> variant, sub |-> payload Vec]               *)
(* with sub = <<>> for a variant without payload.                         *)
(***************************************************************************)
Simple(kind, name) == [kind |-> kind, name |-> name, sub |-> <<>>]

Complex(kind, name, sub) == [kind |-> kind, name |-> name, sub |-> sub]

\* strum AsRefStr / Display output of the variants that are not #[strum(disabled)]
StoryFieldAsRef ==
    [Id |-> "id", Title |-> "title", Length |-> "length",
     CreatedDate |-> "createdDate", ModifyDate |-> "modifyDate",
     VoteCount |-> "voteCount", ReadCount |-> "readCount",
     CommentCount |-> "commentCount", Language |-> "language",
     Description |-> "description", Cover |-> "cover",
     CoverTimestamp |-> "cover_timestamp", Completed |-> "completed",
     Categories |-> "categories", Tags |-> "tags", Rating |-> "rating",
     Mature |-> "mature", Copyright |-> "copyright", Url |-> "url",
     NumParts |-> "numParts", FirstPartId |-> "firstPartId",
     Deleted |-> "deleted"]

PartFieldAsRef ==
    [Id |-> "id", Title |-> "title", Url |-> "url", Rating |-> "rating",
     Draft |-> "draft", ModifyDate |-> "modifyDate",
     CreateDate |-> "createDate", HasBannedImages |-> "hasBannedImages",
     Length |-> "length", VideoID |-> "videoId", PhotoUrl |-> "photoUrl",
     CommentCount |-> "commentCount", VoteCount |-> "voteCount",
     ReadCount |-> "readCount", GroupId |-> "groupId", Deleted |-> "deleted"]

PartStubFieldAsRef ==
    [Id |-> "id", Title |-> "title", Url |-> "url", Rating |-> "rating",
     Draft |-> "draft", CreateDate |-> "createDate",
     ModifyDate |-> "modifyDate", HasBannedImages |-> "hasBannedImages",
     Length |-> "length", VideoId |-> "videoId", PhotoUrl |-> "photoUrl",
     CommentCount |-> "commentCount", VoteCount |-> "voteCount",
     ReadCount |-> "readCount", Voted |-> "voted", Deleted |-> "deleted"]

UserFieldAsRef ==
    [Username |-> "username", Avatar |-> "avatar", IsPrivate |-> "isPrivate",
     BackgroundUrl |-> "backgroundUrl", Name |-> "name",
     Description |-> "description", Badges |-> "badges", Status |-> "status",
     Gender |-> "gender", GenderCode |-> "genderCode",
     Language |-> "language", Locale |-> "locale",
     CreateDate |-> "createDate", ModifyDate |-> "modifyDate",
     Location |-> "location", Verified |-> "verified",
     Ambassador |-> "ambassador", Facebook |-> "facebook",
     Website |-> "website", Lulu |-> "lulu", Smashwords |-> "smashwords",
     Bubok |-> "bubok", VotesReceived |-> "votesReceived",
     NumStoriesPublished |-> "numStoriesPublished",
     NumFollowing |-> "numFollowing", NumFollowers |-> "numFollowers",
     NumMessages |-> "numMessages", NumLists |-> "numLists",
     VerifiedEmail |-> "verified_email",
     PreferredCategories |-> "preferred_categories",
     AllowCrawler |-> "allowCrawler", Deeplink |-> "deeplink"]

UserStubFieldAsRef ==
    [Username |-> "name", Avatar |-> "avatar", FullName |-> "fullname",
     Verified |-> "verified"]

PartReferenceFieldAsRef == [Id |-> "id", CreateDate |-> "createDate"]

TextUrlFieldAsRef == [Text |-> "text", RefreshToken |-> "refresh_token"]

LanguageFieldAsRef == [Id |-> "id", Name |-> "name"]

PartContentFieldAsRef == [Text |-> "text", TextHash |-> "text_hash"]

AsRefStr(kind) ==
    CASE kind = "Story" -> StoryFieldAsRef
      [] kind = "Part" -> PartFieldAsRef
      [] kind = "PartStub" -> PartStubFieldAsRef
      [] kind = "User" -> UserFieldAsRef
      [] kind = "UserStub" -> UserStubFieldAsRef
      [] kind = "PartReference" -> PartReferenceFieldAsRef
      [] kind = "TextUrl" -> TextUrlFieldAsRef
      [] kind = "Language" -> LanguageFieldAsRef
      [] kind = "PartContent" -> PartContentFieldAsRef

\* the `Variant => "name"` arms handed to impl_field_display! for each enum
StoryFieldDisplayArms ==
    [User |-> "user", FirstPublishedPart |-> "firstPublishedPart",
     LastPublishedPart |-> "lastPublishedPart", Parts |-> "parts"]

PartFieldDisplayArms == [TextUrl |-> "text_url", Group |-> "group"]

PartStubFieldDisplayArms == [TextUrl |-> "text_url"]

DisplayArms(kind) ==
    CASE kind = "Story" -> StoryFieldDisplayArms
      [] kind = "Part" -> PartFieldDisplayArms
      [] kind = "PartStub" -> PartStubFieldDisplayArms
      [] OTHER -> <<>>

\* the enum a variant's Vec payload is drawn from ("" when it has none)
SubKind(kind, name) ==
    CASE kind = "Story" /\ name = "Language" -> "Language"
      [] kind = "Story" /\ name = "User" -> "UserStub"
      [] kind = "Story" /\ name \in {"FirstPublishedPart", "LastPublishedPart"}
           -> "PartReference"
      [] kind = "Story" /\ name = "Parts" -> "PartStub"
      [] kind = "Part" /\ name = "TextUrl" -> "TextUrl"
      [] kind = "Part" /\ name = "Group" -> "Story"
      [] kind = "PartStub" /\ name = "TextUrl" -> "TextUrl"
      [] OTHER -> ""

RECURSIVE Join(_, _)
\* Vec<String>::join(sep)
Join(strs, sep) ==
    IF Len(strs) = 0 THEN ""
    ELSE IF Len(strs) = 1 THEN strs[1]
    ELSE strs[1] \o sep \o Join(Tail(strs), sep)

RECURSIVE to_string(_)
\* Display for a field: the macro's arms for the listed complex variants,
\* the fallback arm (as_ref) for every other variant
to_string(f) ==
    IF f.name \in DOMAIN DisplayArms(f.kind)
    THEN DisplayArms(f.kind)[f.name] \o "("
           \o Join([i \in 1..Len(f.sub) |-> to_string(f.sub[i])], ",") \o ")"
    ELSE AsRefStr(f.kind)[f.name]

\* variant of auth_required_fields that hands out the enum's constant
\* AUTH_REQUIRED_FIELDS instead of the list in the trait impl
auth_required_fields_const(kind) ==
    IF kind = "PartStub"
    THEN <<Simple("PartStub", "Voted"), Simple("PartStub", "Deleted")>>
    ELSE <<>>

\* AuthRequiredFields::auth_required_fields
auth_required_fields(kind) ==
    IF kind = "PartStub" THEN <<Simple("PartStub", "Voted")>> ELSE <<>>

RECURSIVE auth_required_nested(_)
\* variant of auth_required that also looks into a variant's payload
auth_required_nested(f) ==
    \/ f \in Range(auth_required_fields(f.kind))
    \/ \E i \in 1..Len(f.sub) : auth_required_nested(f.sub[i])

\* AuthRequiredFields::auth_required
auth_required(f) == f \in Range(auth_required_fields(f.kind))

\* variant of default_fields that hands out the kind's protected fields
default_fields_protected(kind) == auth_required_fields(kind)

\* DefaultableFields::default_fields
default_fields(kind) ==
    CASE kind = "Story" ->
           <<Simple("Story", "Id"), Simple("Story", "Title"),
             Simple("Story", "Length"), Simple("Story", "CreatedDate"),
             Simple("Story", "ModifyDate"), Simple("Story", "VoteCount"),
             Simple("Story", "ReadCount"), Simple("Story", "CommentCount"),
             Complex("Story", "Language", <<Simple("Language", "Id")>>),
             Simple("Story", "Description"), Simple("Story", "Cover"),
             Simple("Story", "CoverTimestamp"), Simple("Story", "Completed"),
             Simple("Story", "Categories"), Simple("Story", "Tags"),
             Simple("Story", "Rating"), Simple("Story", "Mature"),
             Simple("Story", "Copyright"), Simple("Story", "Url"),
             Simple("Story", "NumParts"),
             Complex("Story", "FirstPublishedPart",
                     <<Simple("PartReference", "Id")>>),
             Complex("Story", "LastPublishedPart",
                     <<Simple("PartReference", "Id")>>),
             Complex("Story", "Parts", <<Simple("PartStub", "Id")>>),
             Simple("Story", "Deleted"),
             Complex("Story", "User", <<Simple("UserStub", "Username")>>)>>
      [] kind = "Part" ->
           <<Simple("Part", "Id"), Simple("Part", "Title"),
             Simple("Part", "Url")>>
      [] kind = "PartStub" ->
           <<Simple("PartStub", "Id"), Simple("PartStub", "Title"),
             Complex("PartStub", "TextUrl", <<Simple("TextUrl", "Text")>>),
             Simple("PartStub", "Rating"), Simple("PartStub", "VideoId"),
             Simple("PartStub", "PhotoUrl"), Simple("PartStub", "ModifyDate")>>
      [] kind = "User" ->
           <<Simple("User", "Username"), Simple("User", "Avatar"),
             Simple("User", "BackgroundUrl"), Simple("User", "Name"),
             Simple("User", "Description"), Simple("User", "CreateDate"),
             Simple("User", "ModifyDate"), Simple("User", "VotesReceived"),
             Simple("User", "NumStoriesPublished"),
             Simple("User", "NumFollowing"), Simple("User", "NumFollowers"),
             Simple("User", "NumMessages"), Simple("User", "NumLists")>>
      [] kind = "UserStub" ->
           <<Simple("UserStub", "Username"), Simple("UserStub", "Avatar")>>
      [] kind = "PartReference" -> <<Simple("PartReference", "Id")>>
      [] kind = "TextUrl" -> <<Simple("TextUrl", "Text")>>
      [] kind = "Language" -> <<Simple("Language", "Id")>>
      [] kind = "PartContent" -> <<Simple("PartContent", "Text")>>

(***************************************************************************)
(* Results and errors (src/error.rs)                                       *)
(***************************************************************************)
NoResult == [tag |-> "None"]

\* Ok(value); `as` tells how the body was materialized
Ok(as) == [tag |-> "Ok", as |-> as]

\* WattpadError::RequestError(reqwest::Error); kind is the reqwest error kind
RequestError(kind) == [tag |-> "Err", err |-> "RequestError", kind |-> kind]

AuthenticationFailed == [tag |-> "Err", err |-> "AuthenticationFailed"]

AuthenticationRequired(field, context) ==
    [tag |-> "Err", err |-> "AuthenticationRequired", field |-> field,
     context |-> context]

MissingRequiredField(field, context) ==
    [tag |-> "Err", err |-> "MissingRequiredField", field |-> field,
     context |-> context]

ApiError(code, error_type, message) ==
    [tag |-> "Err", err |-> "ApiError", code |-> code,
     error_type |-> error_type, message |-> message]

UserNotFound == [tag |-> "Err", err |-> "UserNotFound"]

StoryNotFound == [tag |-> "Err", err |-> "StoryNotFound"]

PermissionDeniedNotLoggedIn == [tag |-> "Err", err |-> "PermissionDeniedNotLoggedIn"]

AccessDenied == [tag |-> "Err", err |-> "AccessDenied"]

\* variant of the mapping with the 1017 arm returning the 1014 variant
FromApiErrorResponse_wrong_arm(res) ==
    CASE res.code = 1014 -> UserNotFound
      [] res.code = 1017 -> UserNotFound
      [] res.code = 1018 -> PermissionDeniedNotLoggedIn
      [] res.code = 1154 -> AccessDenied
      [] OTHER -> ApiError(res.code, res.error_type, res.message)

\* impl From<ApiErrorResponse> for WattpadError
FromApiErrorResponse(res) ==
    CASE res.code = 1014 -> UserNotFound
      [] res.code = 1017 -> StoryNotFound
      [] res.code = 1018 -> PermissionDeniedNotLoggedIn
      [] res.code = 1154 -> AccessDenied
      [] OTHER -> ApiError(res.code, res.error_type, res.message)

(***************************************************************************)
(* HTTP responses as the transport hands them over.  A body is            *)
(*   "record"    a JSON object that decodes into the requested record     *)
(*   "envelope"  {"code":..,"error":..,"message":..}; the records have    *)
(*               only optional fields, so it decodes into them as well    *)
(*   "malformed" text that decodes into neither                           *)
(*   "aborted"   the body stream fails while it is read                   *)
(***************************************************************************)
\* StatusCode::is_success
is_success(status) == status >= 200 /\ status <= 299

\* Response::json::<T>() -> reqwest::Result<T>
json_record(body) ==
    CASE body.shape \in {"record", "envelope"} -> [tag |-> "Ok"]
      [] body.shape = "aborted" -> RequestError("body")
      [] OTHER -> RequestError("decode")

\* Response::json::<ApiErrorResponse>() -> reqwest::Result<ApiErrorResponse>
json_envelope(body) ==
    CASE body.shape = "envelope" ->
           [tag |-> "Ok", code |-> body.code, error_type |-> body.error,
            message |-> body.message]
      [] body.shape = "aborted" -> RequestError("body")
      [] OTHER -> RequestError("decode")

\* Response::text() / Response::bytes() -> reqwest::Result<_>
read_body(body) ==
    IF body.shape = "aborted" THEN RequestError("body") ELSE [tag |-> "Ok"]

\* the failure branch shared by handle_response, execute_raw_text, execute_bytes
error_branch(response) ==
    LET error_response == json_envelope(response.body)
    IN  IF error_response.tag = "Ok"
        THEN FromApiErrorResponse(error_response)
        ELSE error_response

\* handle_response::<T>
handle_response(response) ==
    IF is_success(response.status)
    THEN LET json == json_record(response.body)
         IN  IF json.tag = "Ok" THEN Ok("json") ELSE json
    ELSE error_branch(response)

\* variant of execute_raw_text that hands back the body whatever the status
raw_text_response_any_status(response) ==
    LET text == read_body(response.body)
    IN  IF text.tag = "Ok" THEN Ok("text") ELSE text

\* the response half of execute_raw_text
raw_text_response(response) ==
    IF is_success(response.status)
    THEN LET text == read_body(response.body)
         IN  IF text.tag = "Ok" THEN Ok("text") ELSE text
    ELSE error_branch(response)

\* the response half of execute_bytes
bytes_response(response) ==
    IF is_success(response.status)
    THEN LET bytes == read_body(response.body)
         IN  IF bytes.tag = "Ok" THEN Ok("bytes") ELSE bytes
    ELSE error_branch(response)

(***************************************************************************)
(* The client and the shared flag.  heap holds the AtomicBool cells that  *)
(* Arc::new allocates; an Arc is the index of its cell.                    *)
(***************************************************************************)
\* variant of build that gives each endpoint group a cell of its own
build_own_cells ==
    [heap |-> <<FALSE, FALSE, FALSE>>,
     client |-> [is_authenticated |-> 1,
                 user |-> [is_authenticated |-> 2],
                 story |-> [is_authenticated |-> 3]]]

\* WattpadClientBuilder::build: one cell, cloned into both endpoint groups
build ==
    LET auth_flag == 1
    IN  [heap |-> <<FALSE>>,
         client |-> [is_authenticated |-> auth_flag,
                     user |-> [is_authenticated |-> auth_flag],
                     story |-> [is_authenticated |-> auth_flag]]]

\* AtomicBool::load through an Arc
load(arc) == heap[arc]

\* WattpadClient::is_authenticated
is_authenticated == load(client.is_authenticated)

(***************************************************************************)
(* WattpadRequestBuilder                                                   *)
(***************************************************************************)
None == [some |-> FALSE, val |-> <<>>]

Some(v) == [some |-> TRUE, val |-> v]

NoBuilder ==
    [is_authenticated |-> 0, method |-> "", path |-> "", params |-> <<>>,
     auth_required |-> FALSE]

NoRequest == [method |-> "", url |-> "", query |-> <<>>]

NoResponse == [transport |-> "none"]

\* WattpadRequestBuilder::new
new(is_auth, method, path) ==
    [is_authenticated |-> is_auth, method |-> method, path |-> path,
     params |-> <<>>, auth_required |-> FALSE]

\* variant of check_endpoint_auth that lets every request through
check_endpoint_auth_unchecked(self) == [tag |-> "Ok"]

\* variant of check_endpoint_auth that loads the flag for every request,
\* marked or not
check_endpoint_auth_every_request(self) ==
    IF ~load(self.is_authenticated)
    THEN AuthenticationRequired("Endpoint",
           "The endpoint at '" \o self.path \o "' requires authentication.")
    ELSE [tag |-> "Ok"]

\* WattpadRequestBuilder::check_endpoint_auth
check_endpoint_auth(self) ==
    IF self.auth_required /\ ~load(self.is_authenticated)
    THEN AuthenticationRequired("Endpoint",
           "The endpoint at '" \o self.path \o "' requires authentication.")
    ELSE [tag |-> "Ok"]

\* variant of requires_auth that settles the requirement when it is called:
\* the builder is marked only if the flag is false at that moment
requires_auth_settled_at_build(self) ==
    [self EXCEPT !.auth_required = ~load(self.is_authenticated)]

\* WattpadRequestBuilder::requires_auth
requires_auth(self) == [self EXCEPT !.auth_required = TRUE]

\* variant of maybe_param that sends an absent value as an empty one
maybe_param_empty_value(self, key, value) ==
    [self EXCEPT !.params =
        Append(@, <<key, IF value.some THEN value.val ELSE "">>)]

\* WattpadRequestBuilder::maybe_param
maybe_param(self, key, value) ==
    IF value.some
    THEN [self EXCEPT !.params = Append(@, <<key, value.val>>)]
    ELSE self

\* WattpadRequestBuilder::param
param(self, key, value) ==
    IF value.some
    THEN [self EXCEPT !.params = Append(@, <<key, value.val>>)]
    ELSE self

\* variant of the resolution that keeps an empty caller list as given
fields_to_query_keeps_empty(kind, fields) ==
    IF fields.some THEN fields.val
    ELSE default_fields(kind)

\* the selection a fields call resolves to (client.rs, the match on `fields`)
fields_to_query(kind, fields) ==
    IF fields.some /\ Len(fields.val) # 0 THEN fields.val
    ELSE default_fields(kind)

\* variant of the search that starts at the second entry
find_auth_required_skip_first(sel) ==
    LET hits == {i \in 2..Len(sel) : auth_required(sel[i])}
    IN  IF hits = {} THEN 0
        ELSE CHOOSE i \in hits : \A j \in hits : i <= j

\* Iterator::find(|f| f.auth_required()): index of the first match, 0 if none
find_auth_required(sel) ==
    LET hits == {i \in 1..Len(sel) : auth_required(sel[i])}
    IN  IF hits = {} THEN 0
        ELSE CHOOSE i \in hits : \A j \in hits : i <= j

\* the Ok arm of fields: the builder with the fields parameter appended
with_fields(self, sel) ==
    [tag |-> "Ok",
     builder |-> [self EXCEPT !.params =
        Append(@, <<"fields",
           Join([i \in 1..Len(sel) |-> to_string(sel[i])], ",")>>)]]

\* variant of the Err arm that reports what the API reports to a caller
\* that is not logged in
field_requires_auth_as_api_error(auth_field) == PermissionDeniedNotLoggedIn

\* the Err arm of fields
field_requires_auth(auth_field) ==
    AuthenticationRequired(to_string(auth_field),
       "The field '" \o to_string(auth_field) \o "' requires authentication.")

\* variant of fields that runs the endpoint check before the field check
fields_checks_endpoint_first(self, kind, flds) ==
    LET sel == fields_to_query(kind, flds)
        found == IF ~load(self.is_authenticated)
                 THEN find_auth_required(sel) ELSE 0
    IN  IF check_endpoint_auth(self).tag = "Err" THEN check_endpoint_auth(self)
        ELSE IF found # 0 THEN field_requires_auth(sel[found])
        ELSE with_fields(self, sel)

\* variant of fields without the authentication check
fields_ungated(self, kind, flds) ==
    with_fields(self, fields_to_query(kind, flds))

\* variant of fields that scans the selection whatever the flag says
fields_scans_always(self, kind, flds) ==
    LET sel == fields_to_query(kind, flds)
        found == find_auth_required(sel)
    IN  IF found # 0 THEN field_requires_auth(sel[found])
        ELSE with_fields(self, sel)

\* WattpadRequestBuilder::fields::<T>, T the enum `kind`
fields(self, kind, flds) ==
    LET sel == fields_to_query(kind, flds)
        found == IF ~load(self.is_authenticated)
                 THEN find_auth_required(sel) ELSE 0
    IN  IF found # 0 THEN field_requires_auth(sel[found])
        ELSE with_fields(self, sel)

\* the request an execute variant sends: method, url, query
request_of(self) ==
    [method |-> self.method, url |-> "https://www.wattpad.com" \o self.path,
     query |-> self.params]

(***************************************************************************)
(* Callers.  task[t] is the call that caller t has in progress:           *)
(*   status   "idle" | "building" (holds a builder) | "sent" (awaiting    *)
(*            the transport) | "done" (the call has returned `result`)    *)
(*   op       the public operation, or "builder" for crate-internal use   *)
(*            of WattpadRequestBuilder                                     *)
(*   exec     the execute variant the operation goes on to call           *)
(*   kind, flds   the arguments of the latest fields call                 *)
(*   gate     the flag value the latest fields call loaded                *)
(*   response the transport's answer the call received                    *)
(*   requests the HTTP requests this call has issued                      *)
(*   via      the model method the call was made through ("" when the     *)
(*            caller used the client directly), ident that model value's  *)
(*            identifying field                                            *)
(*   marked   the flag's value when the call last ran requires_auth on    *)
(*            the builder it holds (a record of the run kept for the      *)
(*            properties: requires_auth itself does not load the flag),   *)
(*            kept until the transport has answered the call              *)
(*   overtaken  a logout began while this login was awaiting its response *)
(*            (a record of the run kept for the properties)               *)
(***************************************************************************)
Idle ==
    [status |-> "idle", op |-> "", exec |-> "", builder |-> NoBuilder,
     kind |-> "", flds |-> None, gate |-> FALSE, request |-> NoRequest,
     response |-> NoResponse, requests |-> 0, result |-> NoResult,
     via |-> "", ident |-> None, marked |-> None, overtaken |-> FALSE]

Callers == 1..NumTasks

Init ==
    /\ heap = build.heap
    /\ client = build.client
    /\ task = [t \in Callers |-> Idle]

\* the call returns r with nothing left in flight
Returned(tk, r) ==
    [tk EXCEPT !.status = "done", !.builder = NoBuilder,
               !.request = NoRequest, !.result = r]

\* variant of the return that sends the request again after a transport error
Answered_resends(tk, o, r) ==
    IF o.transport = "error" /\ tk.requests < 2
    THEN [tk EXCEPT !.response = o, !.requests = @ + 1]
    ELSE [Returned(tk, r) EXCEPT !.response = o, !.marked = None]

\* the call returns r after the transport answered o
Answered(tk, o, r) ==
    [Returned(tk, r) EXCEPT !.response = o, !.marked = None]

\* variant of authenticate that clears the flag before it sends the login
Authenticate_clears_first(t) ==
    /\ task[t].status = "idle"
    /\ task' = [task EXCEPT ![t] =
         [Idle EXCEPT !.status = "sent", !.op = "authenticate",
            !.request = [method |-> "POST",
               url |-> "https://www.wattpad.com/auth/login?&_data=routes%2Fauth.login",
               query |-> <<>>],
            !.requests = 1]]
    /\ heap' = [heap EXCEPT ![client.is_authenticated] = FALSE]
    /\ UNCHANGED client

\* WattpadClient::authenticate up to `send().await`
Authenticate(t) ==
    /\ task[t].status = "idle"
    /\ task' = [task EXCEPT ![t] =
         [Idle EXCEPT !.status = "sent", !.op = "authenticate",
            !.request = [method |-> "POST",
               url |-> "https://www.wattpad.com/auth/login?&_data=routes%2Fauth.login",
               query |-> <<>>],
            !.requests = 1]]
    /\ UNCHANGED <<heap, client>>

\* variant of authenticate that leaves the flag alone when a logout has
\* returned while the login was under way
AuthenticateResponse_yields_to_logout(t, o) ==
    /\ task[t].status = "sent"
    /\ task[t].op = "authenticate"
    /\ IF o.transport = "error"
       THEN /\ task' = [task EXCEPT ![t] = Answered(@, o, RequestError("send"))]
            /\ UNCHANGED heap
       ELSE IF o.cookies = 0
       THEN /\ heap' = [heap EXCEPT ![client.is_authenticated] = FALSE]
            /\ task' = [task EXCEPT ![t] = Answered(@, o, AuthenticationFailed)]
       ELSE /\ heap' = IF \E u \in Callers : /\ task[u].op = "deauthenticate"
                                              /\ task[u].status = "done"
                       THEN heap
                       ELSE [heap EXCEPT ![client.is_authenticated] = TRUE]
            /\ task' = [task EXCEPT ![t] = Answered(@, o, Ok("unit"))]
    /\ UNCHANGED client

\* variant of authenticate that takes a failure status for a failed login
AuthenticateResponse_by_status(t, o) ==
    /\ task[t].status = "sent"
    /\ task[t].op = "authenticate"
    /\ IF o.transport = "error"
       THEN /\ task' = [task EXCEPT ![t] = Answered(@, o, RequestError("send"))]
            /\ UNCHANGED heap
       ELSE IF o.cookies = 0 \/ ~is_success(o.status)
       THEN /\ heap' = [heap EXCEPT ![client.is_authenticated] = FALSE]
            /\ task' = [task EXCEPT ![t] = Answered(@, o, AuthenticationFailed)]
       ELSE /\ heap' = [heap EXCEPT ![client.is_authenticated] = TRUE]
            /\ task' = [task EXCEPT ![t] = Answered(@, o, Ok("unit"))]
    /\ UNCHANGED client

\* WattpadClient::authenticate from the transport's answer on
AuthenticateResponse(t, o) ==
    /\ task[t].status = "sent"
    /\ task[t].op = "authenticate"
    /\ IF o.transport = "error"
       THEN /\ task' = [task EXCEPT ![t] = Answered(@, o, RequestError("send"))]
            /\ UNCHANGED heap
       ELSE IF o.cookies = 0
       THEN /\ heap' = [heap EXCEPT ![client.is_authenticated] = FALSE]
            /\ task' = [task EXCEPT ![t] = Answered(@, o, AuthenticationFailed)]
       ELSE /\ heap' = [heap EXCEPT ![client.is_authenticated] = TRUE]
            /\ task' = [task EXCEPT ![t] = Answered(@, o, Ok("unit"))]
    /\ UNCHANGED client

\* WattpadClient::deauthenticate up to `send().await`
Deauthenticate(t) ==
    /\ task[t].status = "idle"
    /\ task' = [u \in Callers |->
         IF u = t
         THEN [Idle EXCEPT !.status = "sent", !.op = "deauthenticate",
                 !.request = [method |-> "GET",
                    url |-> "https://www.wattpad.com/logout", query |-> <<>>],
                 !.requests = 1]
         ELSE IF task[u].op = "authenticate" /\ task[u].status = "sent"
         THEN [task[u] EXCEPT !.overtaken = TRUE]
         ELSE task[u]]
    /\ UNCHANGED <<heap, client>>

\* variant of deauthenticate that returns without a store
DeauthenticateResponse_keeps_flag(t, o) ==
    /\ task[t].status = "sent"
    /\ task[t].op = "deauthenticate"
    /\ IF o.transport = "error"
       THEN task' = [task EXCEPT ![t] = Answered(@, o, RequestError("send"))]
       ELSE task' = [task EXCEPT ![t] = Answered(@, o, Ok("unit"))]
    /\ UNCHANGED <<heap, client>>

\* WattpadClient::deauthenticate from the transport's answer on
DeauthenticateResponse(t, o) ==
    /\ task[t].status = "sent"
    /\ task[t].op = "deauthenticate"
    /\ IF o.transport = "error"
       THEN /\ task' = [task EXCEPT ![t] = Answered(@, o, RequestError("send"))]
            /\ UNCHANGED heap
       ELSE /\ heap' = [heap EXCEPT ![client.is_authenticated] = FALSE]
            /\ task' = [task EXCEPT ![t] = Answered(@, o, Ok("unit"))]
    /\ UNCHANGED client

\* variant of the fields step that drops the gate's error and carries on
\* with the builder as it was
AfterFields_defers_error(tk, b, kind, flds) ==
    LET r == fields(b, kind, flds)
        tk1 == [tk EXCEPT !.kind = kind, !.flds = flds,
                          !.gate = load(b.is_authenticated)]
    IN  IF r.tag = "Ok"
        THEN [tk1 EXCEPT !.status = "building", !.builder = r.builder]
        ELSE [tk1 EXCEPT !.status = "building", !.builder = b]

\* a call that has run `.fields(flds)?` on builder b: it holds the new
\* builder, or has returned the gate's error
AfterFields(tk, b, kind, flds) ==
    LET r == fields(b, kind, flds)
        tk1 == [tk EXCEPT !.kind = kind, !.flds = flds,
                          !.gate = load(b.is_authenticated)]
    IN  IF r.tag = "Ok"
        THEN [tk1 EXCEPT !.status = "building", !.builder = r.builder]
        ELSE Returned(tk1, r)

\* StoryClient::get_story_info up to `.execute()`
GetStoryInfo(t, story_id, flds) ==
    /\ task[t].status = "idle"
    /\ task' = [task EXCEPT ![t] =
         AfterFields([Idle EXCEPT !.op = "get_story_info", !.exec = "execute"],
            new(client.story.is_authenticated, "GET",
                "/api/v3/stories/" \o ToString(story_id)),
            "Story", flds)]
    /\ UNCHANGED <<heap, client>>

\* the call record of StoryClient::get_part_info up to `.execute()`
get_part_info(part_id, flds) ==
    AfterFields([Idle EXCEPT !.op = "get_part_info", !.exec = "execute"],
       new(client.story.is_authenticated, "GET",
           "/api/v3/story_parts/" \o ToString(part_id)),
       "Part", flds)

\* StoryClient::get_part_info up to `.execute()`
GetPartInfo(t, part_id, flds) ==
    /\ task[t].status = "idle"
    /\ task' = [task EXCEPT ![t] = get_part_info(part_id, flds)]
    /\ UNCHANGED <<heap, client>>

\* the call record of UserClient::get_user_info up to `.execute()`
get_user_info(username, flds) ==
    AfterFields([Idle EXCEPT !.op = "get_user_info", !.exec = "execute"],
       new(client.user.is_authenticated, "GET", "/api/v3/users/" \o username),
       "User", flds)

\* UserClient::get_user_info up to `.execute()`
GetUserInfo(t, username, flds) ==
    /\ task[t].status = "idle"
    /\ task' = [task EXCEPT ![t] = get_user_info(username, flds)]
    /\ UNCHANGED <<heap, client>>

\* variant of fetch_full_part that asks for part 0 when the id is absent
PartReference_fetch_full_part_zero_id(self) ==
    get_part_info(IF self.id.some THEN self.id.val ELSE 0, None)

\* the call record of PartReference::fetch_full_part
PartReference_fetch_full_part(self) ==
    IF self.id.some
    THEN get_part_info(self.id.val, None)
    ELSE Returned(Idle, MissingRequiredField("id",
            "Cannot fetch full part without an id."))

\* PartReference::fetch_full_part up to `.execute()`
PartReferenceFetchFullPart(t, self) ==
    /\ task[t].status = "idle"
    /\ task' = [task EXCEPT ![t] =
         [PartReference_fetch_full_part(self) EXCEPT
            !.via = "PartReference::fetch_full_part", !.ident = self.id]]
    /\ UNCHANGED <<heap, client>>

\* the call record of PartStub::fetch_full_part
PartStub_fetch_full_part(self) ==
    IF self.id.some
    THEN get_part_info(self.id.val, None)
    ELSE Returned(Idle, MissingRequiredField("id",
            "Cannot fetch full part without an id."))

\* PartStub::fetch_full_part up to `.execute()`
PartStubFetchFullPart(t, self) ==
    /\ task[t].status = "idle"
    /\ task' = [task EXCEPT ![t] =
         [PartStub_fetch_full_part(self) EXCEPT
            !.via = "PartStub::fetch_full_part", !.ident = self.id]]
    /\ UNCHANGED <<heap, client>>

\* the call record of UserStub::fetch_full_profile
UserStub_fetch_full_profile(self) ==
    IF self.username.some
    THEN get_user_info(self.username.val, None)
    ELSE Returned(Idle, MissingRequiredField("username",
            "Cannot fetch full profile without a username."))

\* UserStub::fetch_full_profile up to `.execute()`
UserStubFetchFullProfile(t, self) ==
    /\ task[t].status = "idle"
    /\ task' = [task EXCEPT ![t] =
         [UserStub_fetch_full_profile(self) EXCEPT
            !.via = "UserStub::fetch_full_profile", !.ident = self.username]]
    /\ UNCHANGED <<heap, client>>

\* StoryClient::get_part_content_raw up to `.execute_raw_text()`
GetPartContentRaw(t, part_id) ==
    /\ task[t].status = "idle"
    /\ task' = [task EXCEPT ![t] =
         [Idle EXCEPT !.op = "get_part_content_raw",
            !.exec = "execute_raw_text", !.status = "building",
            !.builder =
               param(param(new(client.story.is_authenticated, "GET", "/apiv2/"),
                           "m", Some("storytext")),
                     "id", Some(ToString(part_id)))]]
    /\ UNCHANGED <<heap, client>>

\* StoryClient::get_part_content_json up to `.execute()`
GetPartContentJson(t, part_id) ==
    /\ task[t].status = "idle"
    /\ task' = [task EXCEPT ![t] =
         [Idle EXCEPT !.op = "get_part_content_json",
            !.exec = "execute", !.status = "building",
            !.builder =
               param(param(param(
                       new(client.story.is_authenticated, "GET", "/apiv2/"),
                       "m", Some("storytext")),
                     "id", Some(ToString(part_id))),
                     "output", Some("json"))]]
    /\ UNCHANGED <<heap, client>>

\* StoryClient::get_story_content_zip up to `.execute_bytes()`
GetStoryContentZip(t, story_id) ==
    /\ task[t].status = "idle"
    /\ task' = [task EXCEPT ![t] =
         [Idle EXCEPT !.op = "get_story_content_zip",
            !.exec = "execute_bytes", !.status = "building",
            !.builder =
               param(param(param(
                       new(client.story.is_authenticated, "GET", "/apiv2/"),
                       "m", Some("storytext")),
                     "group_id", Some(ToString(story_id))),
                     "output", Some("zip"))]]
    /\ UNCHANGED <<heap, client>>

\* crate-internal use of the builder: WattpadRequestBuilder::new
NewBuilder(t, arc, path) ==
    /\ task[t].status = "idle"
    /\ task' = [task EXCEPT ![t] =
         [Idle EXCEPT !.op = "builder", !.exec = "any", !.status = "building",
                      !.builder = new(arc, "GET", path)]]
    /\ UNCHANGED <<heap, client>>

\* builder.requires_auth()
BuilderRequiresAuth(t) ==
    /\ task[t].status = "building"
    /\ task[t].op = "builder"
    /\ task' = [task EXCEPT ![t].builder = requires_auth(@),
                            ![t].marked = Some(is_authenticated)]
    /\ UNCHANGED <<heap, client>>

\* builder.param(key, value)
BuilderParam(t, key, value) ==
    /\ task[t].status = "building"
    /\ task[t].op = "builder"
    /\ Len(task[t].builder.params) < MaxParams
    /\ task' = [task EXCEPT ![t].builder = param(@, key, value)]
    /\ UNCHANGED <<heap, client>>

\* builder.maybe_param(key, value)
BuilderMaybeParam(t, key, value) ==
    /\ task[t].status = "building"
    /\ task[t].op = "builder"
    /\ Len(task[t].builder.params) < MaxParams
    /\ task' = [task EXCEPT ![t].builder = maybe_param(@, key, value)]
    /\ UNCHANGED <<heap, client>>

\* builder.fields(flds)?; like the crate's endpoints, the callers explored
\* select fields at most once per request
BuilderFields(t, kind, flds) ==
    /\ task[t].status = "building"
    /\ task[t].op = "builder"
    /\ Len(task[t].builder.params) < MaxParams
    /\ \A i \in 1..Len(task[t].builder.params) :
          task[t].builder.params[i][1] # "fields"
    /\ task' = [task EXCEPT ![t] = AfterFields(@, @.builder, kind, flds)]
    /\ UNCHANGED <<heap, client>>

\* an execute variant up to `send().await`: the endpoint check, then the send
Send(tk, variant) ==
    LET c == check_endpoint_auth(tk.builder)
    IN  IF c.tag = "Err"
        THEN Returned(tk, c)
        ELSE [tk EXCEPT !.status = "sent", !.exec = variant,
                        !.request = request_of(tk.builder),
                        !.builder = NoBuilder, !.requests = @ + 1]

\* WattpadRequestBuilder::execute up to `send().await`
Execute(t) ==
    /\ task[t].status = "building"
    /\ task[t].exec \in {"execute", "any"}
    /\ task' = [task EXCEPT ![t] = Send(@, "execute")]
    /\ UNCHANGED <<heap, client>>

\* WattpadRequestBuilder::execute_raw_text up to `send().await`
ExecuteRawText(t) ==
    /\ task[t].status = "building"
    /\ task[t].exec \in {"execute_raw_text", "any"}
    /\ task' = [task EXCEPT ![t] = Send(@, "execute_raw_text")]
    /\ UNCHANGED <<heap, client>>

\* WattpadRequestBuilder::execute_bytes up to `send().await`
ExecuteBytes(t) ==
    /\ task[t].status = "building"
    /\ task[t].exec \in {"execute_bytes", "any"}
    /\ task' = [task EXCEPT ![t] = Send(@, "execute_bytes")]
    /\ UNCHANGED <<heap, client>>

\* what a sent builder request returns for the transport's answer o
Received(variant, o) ==
    IF o.transport = "error" THEN RequestError("send")
    ELSE CASE variant = "execute" -> handle_response(o)
           [] variant = "execute_raw_text" -> raw_text_response(o)
           [] variant = "execute_bytes" -> bytes_response(o)

\* variant of execute that drops the session when the API answers 1018
ExecuteResponse_drops_session(t, o) ==
    /\ task[t].status = "sent"
    /\ task[t].exec = "execute"
    /\ task' = [task EXCEPT ![t] = Answered(@, o, Received("execute", o))]
    /\ heap' = IF Received("execute", o) = PermissionDeniedNotLoggedIn
               THEN [heap EXCEPT ![client.is_authenticated] = FALSE]
               ELSE heap
    /\ UNCHANGED client

\* WattpadRequestBuilder::execute from the transport's answer on
ExecuteResponse(t, o) ==
    /\ task[t].status = "sent"
    /\ task[t].exec = "execute"
    /\ task' = [task EXCEPT ![t] = Answered(@, o, Received("execute", o))]
    /\ UNCHANGED <<heap, client>>

\* WattpadRequestBuilder::execute_raw_text from the transport's answer on
ExecuteRawTextResponse(t, o) ==
    /\ task[t].status = "sent"
    /\ task[t].exec = "execute_raw_text"
    /\ task' = [task EXCEPT ![t] = Answered(@, o, Received("execute_raw_text", o))]
    /\ UNCHANGED <<heap, client>>

\* WattpadRequestBuilder::execute_bytes from the transport's answer on
ExecuteBytesResponse(t, o) ==
    /\ task[t].status = "sent"
    /\ task[t].exec = "execute_bytes"
    /\ task' = [task EXCEPT ![t] = Answered(@, o, Received("execute_bytes", o))]
    /\ UNCHANGED <<heap, client>>

\* the caller takes the result and is free for its next call
Return(t) ==
    /\ task[t].status = "done"
    /\ task' = [task EXCEPT ![t] = Idle]
    /\ UNCHANGED <<heap, client>>

(***************************************************************************)
(* Inputs                                                                  *)
(***************************************************************************)
\* the enums that satisfy the bounds of fields::<T>
GateKinds ==
    {"Story", "Part", "User", "PartStub", "TextUrl", "Language", "PartContent"}

FieldPool(kind) ==
    CASE kind = "Story" ->
           {Simple("Story", "Title"), Simple("Story", "VoteCount"),
            Complex("Story", "Language", <<Simple("Language", "Id")>>),
            Complex("Story", "Parts", <<Simple("PartStub", "Voted")>>)}
      [] kind = "Part" ->
           {Simple("Part", "Id"), Complex("Part", "TextUrl", <<>>),
            Complex("Part", "Group", <<Simple("Story", "Title")>>)}
      [] kind = "User" ->
           {Simple("User", "Username"), Simple("User", "NumFollowers")}
      [] kind = "PartStub" ->
           {Simple("PartStub", "Id"), Simple("PartStub", "Voted"),
            Simple("PartStub", "Deleted"),
            Complex("PartStub", "TextUrl", <<Simple("TextUrl", "Text")>>)}
      [] kind = "TextUrl" ->
           {Simple("TextUrl", "Text"), Simple("TextUrl", "RefreshToken")}
      [] kind = "Language" ->
           {Simple("Language", "Id"), Simple("Language", "Name")}
      [] kind = "PartContent" ->
           {Simple("PartContent", "Text"), Simple("PartContent", "TextHash")}

\* Option<&[T]>: None, or a slice of up to MaxSel fields
FieldOpts(kind) ==
    {None} \cup {Some(s) : s \in SeqsUpTo(FieldPool(kind), MaxSel)}

IdPool == {7}

UsernamePool == {"alice"}

PathPool == {"/api/v3/internal"}

ParamPool == {<<"limit", Some("10")>>, <<"offset", None>>}

CodePool == {1014, 1017, 1018, 1154, 9999, 0}

BodyPool ==
    {[shape |-> sh, code |-> 0, error |-> "", message |-> ""] :
        sh \in {"record", "malformed", "aborted"}}
    \cup {[shape |-> "envelope", code |-> c, error |-> em[1], message |-> em[2]] :
            c \in CodePool, em \in {<<"NotFound", "gone">>, <<"Forbidden", "">>}}

StatusPool == {200, 300, 404}

TransportError == [transport |-> "error"]

\* the PartReference and PartStub values a caller holds (their id field)
PartPool == [id : {None} \cup {Some(i) : i \in IdPool}]

\* the UserStub values a caller holds (their username field)
UserStubPool == [username : {None} \cup {Some(u) : u \in UsernamePool}]

\* what the transport answers to an API request
ApiOutcomes ==
    {TransportError}
    \cup [transport : {"ok"}, status : StatusPool, cookies : {0}, body : BodyPool]

\* what the transport answers to a login or logout request
SessionOutcomes ==
    {TransportError}
    \cup [transport : {"ok"}, status : {200, 401}, cookies : 0..MaxCookies,
          body : {[shape |-> "record", code |-> 0, error |-> "", message |-> ""]}]

(***************************************************************************)
(* One caller at a time: every call runs to its return before the next    *)
(***************************************************************************)
SeqCallers == {1}

Next ==
    \/ \E t \in SeqCallers : Authenticate(t)
    \/ \E t \in SeqCallers, o \in SessionOutcomes : AuthenticateResponse(t, o)
    \/ \E t \in SeqCallers : Deauthenticate(t)
    \/ \E t \in SeqCallers, o \in SessionOutcomes : DeauthenticateResponse(t, o)
    \/ \E t \in SeqCallers, id \in IdPool, f \in FieldOpts("Story") :
          GetStoryInfo(t, id, f)
    \/ \E t \in SeqCallers, id \in IdPool, f \in FieldOpts("Part") :
          GetPartInfo(t, id, f)
    \/ \E t \in SeqCallers, u \in UsernamePool, f \in FieldOpts("User") :
          GetUserInfo(t, u, f)
    \/ \E t \in SeqCallers, self \in PartPool : PartReferenceFetchFullPart(t, self)
    \/ \E t \in SeqCallers, self \in PartPool : PartStubFetchFullPart(t, self)
    \/ \E t \in SeqCallers, self \in UserStubPool :
          UserStubFetchFullProfile(t, self)
    \/ \E t \in SeqCallers, id \in IdPool : GetPartContentRaw(t, id)
    \/ \E t \in SeqCallers, id \in IdPool : GetPartContentJson(t, id)
    \/ \E t \in SeqCallers, id \in IdPool : GetStoryContentZip(t, id)
    \/ \E t \in SeqCallers, p \in PathPool,
          arc \in {client.user.is_authenticated, client.story.is_authenticated} :
          NewBuilder(t, arc, p)
    \/ \E t \in SeqCallers : BuilderRequiresAuth(t)
    \/ \E t \in SeqCallers, kv \in ParamPool : BuilderParam(t, kv[1], kv[2])
    \/ \E t \in SeqCallers, kv \in ParamPool : BuilderMaybeParam(t, kv[1], kv[2])
    \/ \E t \in SeqCallers, k \in GateKinds :
          \E f \in FieldOpts(k) : BuilderFields(t, k, f)
    \/ \E t \in SeqCallers : Execute(t)
    \/ \E t \in SeqCallers : ExecuteRawText(t)
    \/ \E t \in SeqCallers : ExecuteBytes(t)
    \/ \E t \in SeqCallers, o \in ApiOutcomes : ExecuteResponse(t, o)
    \/ \E t \in SeqCallers, o \in ApiOutcomes : ExecuteRawTextResponse(t, o)
    \/ \E t \in SeqCallers, o \in ApiOutcomes : ExecuteBytesResponse(t, o)
    \/ \E t \in SeqCallers : Return(t)

Spec == Init /\ [][Next]_vars

(***************************************************************************)
(* NumTasks callers share the client and interleave at every load, store  *)
(* and await; their inputs are narrowed to the cases that touch the flag. *)
(***************************************************************************)
ConcFieldOpts ==
    {Some(<<Simple("PartStub", "Voted")>>), Some(<<Simple("PartStub", "Id")>>)}

ConcSessionOutcomes ==
    {o \in SessionOutcomes :
        o.transport = "ok" => (o.status = 200 /\ o.cookies <= 1)}

ConcApiOutcomes ==
    {o \in ApiOutcomes :
        o.transport = "ok" =>
           \/ o.status = 200 /\ o.body.shape = "record"
           \/ o.status = 404 /\ o.body.shape = "envelope" /\ o.body.code = 1018
                /\ o.body.error = "Forbidden"}

NextConc ==
    \/ \E t \in Callers : Authenticate(t)
    \/ \E t \in Callers, o \in ConcSessionOutcomes : AuthenticateResponse(t, o)
    \/ \E t \in Callers : Deauthenticate(t)
    \/ \E t \in Callers, o \in ConcSessionOutcomes : DeauthenticateResponse(t, o)
    \/ \E t \in Callers, p \in PathPool : NewBuilder(t, client.story.is_authenticated, p)
    \/ \E t \in Callers : BuilderRequiresAuth(t)
    \/ \E t \in Callers, f \in ConcFieldOpts : BuilderFields(t, "PartStub", f)
    \/ \E t \in Callers : Execute(t)
    \/ \E t \in Callers, o \in ConcApiOutcomes : ExecuteResponse(t, o)
    \/ \E t \in Callers : Return(t)

SpecConc == Init /\ [][NextConc]_vars

(***************************************************************************)
(* Properties                                                              *)
(***************************************************************************)
\* caller t has run a fields call in the call it has in progress
Gated(tk) == tk.kind # ""

\* the selection the fields call of tk resolved to
Selection(tk) ==
    IF tk.flds.some /\ tk.flds.val # <<>> THEN tk.flds.val
    ELSE default_fields(tk.kind)

\* the top-level entries of sel that are protected fields
Protected(sel) == {i \in 1..Len(sel) : sel[i] = Simple("PartStub", "Voted")}

\* the call of tk has returned the field gate's error
GateFailed(tk) ==
    /\ tk.status = "done"
    /\ tk.result.tag = "Err"
    /\ tk.result.err = "AuthenticationRequired"
    /\ tk.result.field # "Endpoint"

\* caller t receives the transport's answer in this step and returns
Returns(t, op) ==
    /\ task[t].op = op
    /\ task[t].status = "sent"
    /\ task'[t].status = "done"

\* C1: a fields call made while the flag is false on a selection with a
\* protected top-level field ends the call with AuthenticationRequired
\* naming that field's wire token ("voted"), and the call has issued no
\* HTTP request.
C1_GateFailsBeforeAnyRequest ==
    \A t \in Callers :
       LET tk == task[t] IN
       (Gated(tk) /\ ~tk.gate /\ Protected(Selection(tk)) # {}) =>
          /\ tk.status = "done"
          /\ tk.result.tag = "Err"
          /\ tk.result.err = "AuthenticationRequired"
          /\ tk.result.field = "voted"
          /\ tk.requests = 0
          /\ tk.request = NoRequest

C1_Witness ==
    \E t \in Callers :
       /\ task[t].kind = "PartStub"
       /\ ~task[t].gate
       /\ task[t].flds = Some(<<Simple("PartStub", "Id"), Simple("PartStub", "Voted")>>)
       /\ task[t].status = "done"
       /\ task[t].result.tag = "Err"
       /\ task[t].result.field = "voted"
       /\ task[t].requests = 0

\* C2: once deauthenticate returns, with Ok or with a transport error, the
\* flag is false.
C2_LogoutAlwaysClearsFlag ==
    [][\A t \in Callers : Returns(t, "deauthenticate") => ~is_authenticated']_vars

\* C3: when authenticate receives a response, whatever its status and
\* whatever the flag was: with at least one cookie it returns Ok and the
\* flag is true, with no cookie it returns AuthenticationFailed and the
\* flag is false.
C3_LoginDecidedByCookies ==
    [][\A t \in Callers :
         (Returns(t, "authenticate") /\ task'[t].response.transport = "ok") =>
            IF task'[t].response.cookies >= 1
            THEN task'[t].result = Ok("unit") /\ is_authenticated'
            ELSE task'[t].result = AuthenticationFailed /\ ~is_authenticated']_vars

C3_Witness ==
    \E t \in Callers :
       /\ task[t].op = "authenticate"
       /\ task[t].status = "done"
       /\ task[t].response.transport = "ok"
       /\ task[t].response.status = 401
       /\ task[t].response.cookies >= 1
       /\ task[t].result = Ok("unit")
       /\ is_authenticated

\* C4: with the flag false at the fields call, the gate fails exactly when
\* some top-level entry of the resolved selection is a protected field, and
\* the error then names the first such entry in selection order.
C4_GateFailsIffProtectedTopLevel ==
    \A t \in Callers :
       LET tk == task[t]
           sel == Selection(tk)
           hits == Protected(sel)
       IN  (Gated(tk) /\ ~tk.gate) =>
              /\ GateFailed(tk) <=> hits # {}
              /\ GateFailed(tk) =>
                    \E i \in hits :
                       /\ \A j \in hits : i <= j
                       /\ tk.result.field = AsRefStr(tk.kind)[sel[i].name]

C4_Witness ==
    \E t \in Callers :
       /\ task[t].kind = "PartStub"
       /\ ~task[t].gate
       /\ task[t].flds = Some(<<Simple("PartStub", "Voted"), Simple("PartStub", "Id")>>)
       /\ GateFailed(task[t])

\* C5: with the flag true at the fields call, the gate lets every selection
\* of every field enum through, protected fields included.
C5_AuthenticatedGateAlwaysPasses ==
    \A t \in Callers :
       LET tk == task[t] IN
       (Gated(tk) /\ tk.gate) =>
          /\ ~GateFailed(tk)
          /\ tk.status = "building" =>
                \E i \in 1..Len(tk.builder.params) :
                   tk.builder.params[i][1] = "fields"

C5_Witness ==
    \E t \in Callers :
       /\ task[t].kind = "PartStub"
       /\ task[t].gate
       /\ task[t].flds = Some(<<Simple("PartStub", "Voted")>>)
       /\ task[t].status = "sent"
       /\ task[t].request.query = <<<<"fields", "voted">>>>

\* the fields of sel, at any depth below the top level, that are protected
RECURSIVE HasProtected(_)
HasProtected(f) ==
    \/ f = Simple("PartStub", "Voted")
    \/ \E i \in 1..Len(f.sub) : HasProtected(f.sub[i])

\* C6: with the flag false, a selection whose protected fields all sit
\* inside the payload of a complex field passes the gate, and the payload
\* is serialized into the fields parameter of the request that is sent
\* (parts(voted)).
C6_NestedProtectedFieldPassesGate ==
    \A t \in Callers :
       LET tk == task[t]
           sel == Selection(tk)
       IN  (/\ Gated(tk)
            /\ ~tk.gate
            /\ Protected(sel) = {}
            /\ \E i \in 1..Len(sel) : HasProtected(sel[i])) =>
              /\ ~GateFailed(tk)
              /\ (tk.op = "get_story_info" /\ tk.status = "done") => tk.requests = 1
              /\ (tk.flds = Some(<<Complex("Story", "Parts",
                                     <<Simple("PartStub", "Voted")>>)>>)
                  /\ tk.status = "sent") =>
                    <<"fields", "parts(voted)">> \in Range(tk.request.query)

C6_Witness ==
    \E t \in Callers :
       /\ task[t].op = "get_story_info"
       /\ ~task[t].gate
       /\ task[t].flds = Some(<<Complex("Story", "Parts",
                                   <<Simple("PartStub", "Voted")>>)>>)
       /\ task[t].status = "sent"
       /\ task[t].requests = 1
       /\ task[t].request.query = <<<<"fields", "parts(voted)">>>>

\* the call of tk received a failure-status response whose body is an
\* error envelope
EnvelopeFailure(tk) ==
    /\ tk.status = "done"
    /\ tk.exec \in {"execute", "execute_raw_text", "execute_bytes"}
    /\ tk.response.transport = "ok"
    /\ ~(tk.response.status \in 200..299)
    /\ tk.response.body.shape = "envelope"

\* C7: a failure-status response with an error envelope returns
\* UserNotFound for code 1014, StoryNotFound for 1017,
\* PermissionDeniedNotLoggedIn for 1018, AccessDenied for 1154, and for any
\* other code an ApiError carrying the envelope's code, error and message.
C7_ErrorCodeTable ==
    \A t \in Callers :
       LET tk == task[t]
           body == tk.response.body
       IN  EnvelopeFailure(tk) =>
              /\ tk.result.tag = "Err"
              /\ body.code = 1014 => tk.result.err = "UserNotFound"
              /\ body.code = 1017 => tk.result.err = "StoryNotFound"
              /\ body.code = 1018 => tk.result.err = "PermissionDeniedNotLoggedIn"
              /\ body.code = 1154 => tk.result.err = "AccessDenied"
              /\ body.code \notin {1014, 1017, 1018, 1154} =>
                    /\ tk.result.err = "ApiError"
                    /\ tk.result.code = body.code
                    /\ tk.result.error_type = body.error
                    /\ tk.result.message = body.message

C7_Witness ==
    \E t \in Callers :
       /\ EnvelopeFailure(task[t])
       /\ task[t].response.body.code = 9999
       /\ task[t].result = ApiError(9999, "NotFound", "gone")

\* the call of tk received a body that does not decode: a success-status
\* body that is no record (typed execute), or a failure-status body that is
\* no error envelope (any variant)
DecodeFailure(tk) ==
    /\ tk.status = "done"
    /\ tk.exec \in {"execute", "execute_raw_text", "execute_bytes"}
    /\ tk.response.transport = "ok"
    /\ \/ /\ tk.response.status \in 200..299
          /\ tk.exec = "execute"
          /\ tk.response.body.shape = "malformed"
       \/ /\ ~(tk.response.status \in 200..299)
          /\ tk.response.body.shape \in {"malformed", "record"}

\* C8: a call whose response body cannot be decoded returns ParseError.
C8_DecodeFailureIsParseError ==
    \A t \in Callers :
       DecodeFailure(task[t]) =>
          /\ task[t].result.tag = "Err"
          /\ task[t].result.err = "ParseError"

\* C9: the flag changes only in the step in which an authenticate or a
\* deauthenticate call processes its response; building, gating, sending
\* and resolving a response (a 1018 error included) leave it as it is.
C9_OnlyLoginLogoutWriteFlag ==
    [][heap' # heap =>
         \E t \in Callers :
            \/ Returns(t, "authenticate")
            \/ Returns(t, "deauthenticate")]_vars

C9_Witness ==
    \E t \in Callers :
       /\ task[t].status = "done"
       /\ task[t].exec = "execute"
       /\ task[t].result = PermissionDeniedNotLoggedIn
       /\ is_authenticated

\* C10: the client and both endpoint groups hold the same cell, so they
\* never disagree about the flag, and a fields call made through client.user
\* or client.story loads the value the client's last login or logout stored.
C10_OneSharedFlag ==
    /\ client.user.is_authenticated = client.is_authenticated
    /\ client.story.is_authenticated = client.is_authenticated
    /\ load(client.user.is_authenticated) = is_authenticated
    /\ load(client.story.is_authenticated) = is_authenticated
    /\ \A t \in SeqCallers :
          (Gated(task[t]) /\ task[t].status # "done") =>
             task[t].gate = is_authenticated

C10_Witness ==
    \E t \in Callers :
       /\ task[t].op = "get_user_info"
       /\ task[t].status = "building"
       /\ task[t].gate
       /\ is_authenticated

\* the value of the fields parameter that a list of fields is sent as
Wire(sel) == Join([i \in 1..Len(sel) |-> to_string(sel[i])], ",")

\* C11: a fields call whose list is absent or empty puts the kind's default
\* selection, in its defined order, into the fields parameter; a non-empty
\* list is put there as given, in the caller's order.
C11_AbsentOrEmptyResolvesToDefault ==
    \A t \in Callers :
       LET tk == task[t]
           params == IF tk.status = "building" THEN tk.builder.params
                     ELSE tk.request.query
           sent == {params[i][2] : i \in {j \in 1..Len(params) :
                                            params[j][1] = "fields"}}
       IN  (Gated(tk) /\ tk.status \in {"building", "sent"}) =>
              /\ (~tk.flds.some \/ tk.flds.val = <<>>) =>
                    sent = {Wire(default_fields(tk.kind))}
              /\ (tk.flds.some /\ tk.flds.val # <<>>) =>
                    sent = {Wire(tk.flds.val)}
              /\ (tk.kind = "Part" /\ tk.flds \in {None, Some(<<>>)}) =>
                    sent = {"id,title,url"}
              /\ tk.flds = Some(<<Simple("Story", "VoteCount"),
                                  Simple("Story", "Title")>>) =>
                    sent = {"voteCount,title"}

C11_Witness ==
    \E t \in Callers :
       /\ task[t].op = "get_part_info"
       /\ task[t].flds = Some(<<>>)
       /\ task[t].status = "sent"
       /\ task[t].request.query = <<<<"fields", "id,title,url">>>>

\* the nine field enums
FieldSets ==
    {"User", "UserStub", "Story", "Part", "PartStub", "PartReference",
     "PartContent", "Language", "TextUrl"}

\* no caller has a call in progress (the tables of the field enums do not
\* depend on the state; they are examined in these states)
NoCallInProgress == \A t \in Callers : task[t].status = "idle"

\* C12: every field enum's default selection is non-empty and holds no
\* field for which auth_required is true, so a fields call that falls back
\* to the defaults passes the gate whether the flag is true or false.
C12_DefaultsAreNeverGated ==
    /\ NoCallInProgress =>
          \A kind \in FieldSets :
             /\ Len(default_fields(kind)) > 0
             /\ \A i \in 1..Len(default_fields(kind)) :
                   ~auth_required(default_fields(kind)[i])
    /\ \A t \in Callers :
          LET tk == task[t] IN
          (Gated(tk) /\ (~tk.flds.some \/ tk.flds.val = <<>>)) =>
             /\ ~GateFailed(tk)
             /\ tk.status \in {"building", "sent"}
                 \/ (tk.status = "done" /\ tk.requests = 1)
                 \/ (tk.status = "done" /\ tk.op = "builder"
                       /\ tk.result.tag = "Err"
                       /\ tk.result.err = "AuthenticationRequired"
                       /\ tk.result.field = "Endpoint")

C12_Witness ==
    \E t \in Callers :
       /\ task[t].kind = "PartStub"
       /\ task[t].flds = None
       /\ ~task[t].gate
       /\ task[t].status = "sent"
       /\ <<"fields", "id,title,text_url(text),rating,videoId,photoUrl,modifyDate">>
             \in Range(task[t].request.query)

\* the text a field is to be sent as when every variant that carries a
\* sub-selection keeps its parenthesized group
RECURSIVE Parenthesized(_)
Parenthesized(f) ==
    LET token == IF f.name \in DOMAIN DisplayArms(f.kind)
                 THEN DisplayArms(f.kind)[f.name]
                 ELSE AsRefStr(f.kind)[f.name]
    IN  IF SubKind(f.kind, f.name) # ""
        THEN token \o "("
               \o Join([i \in 1..Len(f.sub) |-> Parenthesized(f.sub[i])], ",")
               \o ")"
        ELSE token

\* C13: every field that carries a sub-selection is sent as its token
\* followed by the parenthesized, comma-joined serializations of its
\* sub-fields in order ("token()" when there are none); the group is never
\* left out.
C13_CompositeKeepsParenthesizedGroup ==
    \A t \in Callers :
       LET tk == task[t]
           sel == Selection(tk)
       IN  (Gated(tk) /\ tk.status = "sent") =>
              <<"fields", Join([i \in 1..Len(sel) |-> Parenthesized(sel[i])], ",")>>
                 \in Range(tk.request.query)

\* every variant of the enum `kind`, the complex ones with the payloads sub
Variants(kind, subs) ==
    {Simple(kind, n) : n \in DOMAIN AsRefStr(kind)}
       \cup {Complex(kind, n, s) : n \in DOMAIN DisplayArms(kind), s \in subs}

PublicOps ==
    {"authenticate", "deauthenticate", "get_story_info", "get_part_info",
     "get_user_info", "get_part_content_raw", "get_part_content_json",
     "get_story_content_zip"}

\* C15: a call issues at most one HTTP request and returns exactly one
\* outcome, a success value or an error; the transport's answer, whatever
\* it is (transport failure, failure status, undecodable body), ends the
\* call, and nothing is sent again.
C15_OneRequestOneOutcome ==
    \A t \in Callers :
       LET tk == task[t] IN
       /\ tk.requests \in {0, 1}
       /\ tk.status = "sent" => (tk.requests = 1 /\ tk.request # NoRequest)
       /\ tk.status \in {"idle", "building"} => tk.requests = 0
       /\ tk.status # "sent" => tk.request = NoRequest
       /\ tk.status = "done" <=> tk.result.tag \in {"Ok", "Err"}
       /\ tk.status # "done" => (tk.result = NoResult /\ tk.response = NoResponse)
       /\ tk.response # NoResponse => tk.requests = 1
       /\ (tk.status = "done" /\ tk.result.tag = "Ok") =>
             (tk.requests = 1 /\ tk.response # NoResponse)
       /\ (tk.status = "done" /\ tk.op \in {"authenticate", "deauthenticate"}) =>
             tk.requests = 1

C15_Witness ==
    \E t \in Callers :
       /\ task[t].op \in PublicOps
       /\ task[t].status = "done"
       /\ task[t].response # NoResponse
       /\ task[t].response.transport = "error"
       /\ task[t].requests = 1
       /\ task[t].result = RequestError("send")

\* C16: fetch_full_part on a PartReference or PartStub without an id, and
\* fetch_full_profile on a UserStub without a username, return
\* MissingRequiredField naming "id" / "username" and issue no HTTP request;
\* with the identifier present the call is get_part_info / get_user_info
\* for that identifier with the default fields.
C16_FetchFullNeedsIdentifier ==
    \A t \in Callers :
       LET tk == task[t]
           part == tk.via \in {"PartReference::fetch_full_part",
                               "PartStub::fetch_full_part"}
       IN  tk.via # "" =>
              IF ~tk.ident.some
              THEN /\ tk.status = "done"
                   /\ tk.requests = 0
                   /\ tk.response = NoResponse
                   /\ tk.result.tag = "Err"
                   /\ tk.result.err = "MissingRequiredField"
                   /\ tk.result.field = (IF part THEN "id" ELSE "username")
              ELSE /\ tk.op = (IF part THEN "get_part_info" ELSE "get_user_info")
                   /\ tk.flds = None
                   /\ ~(tk.result.tag = "Err"
                         /\ tk.result.err = "MissingRequiredField")
                   /\ tk.status = "sent" =>
                         tk.request =
                            [method |-> "GET",
                             url |-> IF part
                                THEN "https://www.wattpad.com/api/v3/story_parts/"
                                        \o ToString(tk.ident.val)
                                ELSE "https://www.wattpad.com/api/v3/users/"
                                        \o tk.ident.val,
                             query |-> <<<<"fields", Wire(default_fields(tk.kind))>>>>]
                   /\ tk.status = "done" => tk.requests = 1

C16_Witness ==
    \E t \in Callers :
       /\ task[t].via = "PartReference::fetch_full_part"
       /\ task[t].ident = None
       /\ task[t].status = "done"
       /\ task[t].requests = 0
       /\ task[t].result = MissingRequiredField("id",
                              "Cannot fetch full part without an id.")

\* caller t runs its fields call in this step
FieldsStep(t) == ~Gated(task[t]) /\ Gated(task'[t])

\* caller t runs an execute variant up to the send in this step
ExecuteStep(t) ==
    /\ task[t].status = "building"
    /\ task'[t].status \in {"sent", "done"}
    /\ ~FieldsStep(t)

\* C17: a call is gated on the value the flag has at the moment of its
\* fields call, and that decision stands: the call fails the gate exactly
\* when that value was false and a protected field was selected, whatever
\* another caller's login or logout stores afterwards; a builder that
\* passed the gate and is not marked requires_auth is sent whatever the flag
\* is by then; and a store by another caller leaves a call that is past its
\* gate as it is.
C17_GateAndSendAreSeparateSteps ==
    [][\A t \in Callers :
         /\ FieldsStep(t) =>
               /\ task'[t].gate = is_authenticated
               /\ GateFailed(task'[t]) <=>
                     (~is_authenticated /\ Protected(Selection(task'[t])) # {})
               /\ ~GateFailed(task'[t]) => task'[t].status = "building"
         /\ (ExecuteStep(t) /\ ~task[t].builder.auth_required) =>
               /\ task'[t].status = "sent"
               /\ task'[t].request = request_of(task[t].builder)
         /\ (heap' # heap /\ Gated(task[t]) /\ ~Returns(t, task[t].op)) =>
               task'[t] = task[t]
      ]_vars

\* a builder that passed the gate on a protected field while the flag was
\* true is still to be sent, and another caller's logout has stored false
\* in the meantime (its execute step then sends it)
C17_Witness ==
    \E t, u \in Callers :
       /\ task[t].status = "building"
       /\ task[t].gate
       /\ task[t].flds = Some(<<Simple("PartStub", "Voted")>>)
       /\ <<"fields", "voted">> \in Range(task[t].builder.params)
       /\ ~task[t].builder.auth_required
       /\ ~is_authenticated
       /\ task[u].op = "deauthenticate"
       /\ task[u].status = "done"
       /\ task[u].result = Ok("unit")

\* a call has been rejected by the gate and another caller's login has
\* stored true since
C17_RejectedBeforeLogin ==
    \E t, u \in Callers :
       /\ GateFailed(task[t])
       /\ ~task[t].gate
       /\ is_authenticated
       /\ task[u].op = "authenticate"
       /\ task[u].status = "done"
       /\ task[u].result = Ok("unit")

\* C18: the flag is stored to only in the step in which an authenticate or
\* deauthenticate call receives its HTTP response and returns, so each
\* call stores at most once and never before its response; the store is
\* one step that changes nothing but the flag's cell and the returning
\* call; and a fields call stores nothing and reads the value the cell
\* holds in that step, a boolean that is the value before or after any
\* other caller's store.
C18_OneStoreAfterTheResponse ==
    [][/\ heap' # heap =>
            \E t \in Callers :
               /\ task[t].op \in {"authenticate", "deauthenticate"}
               /\ Returns(t, task[t].op)
               /\ task'[t].response # NoResponse
               /\ task'[t].response.transport = "ok"
               /\ \A u \in Callers \ {t} : task'[u] = task[u]
               /\ \A c \in DOMAIN heap \ {client.is_authenticated} :
                     heap'[c] = heap[c]
       /\ DOMAIN heap' = DOMAIN heap
       /\ is_authenticated' \in BOOLEAN
       /\ \A t \in Callers :
            /\ FieldsStep(t) =>
                  (heap' = heap /\ task'[t].gate = is_authenticated)
            /\ (task[t].op \in {"authenticate", "deauthenticate"}
                 /\ task[t].status # "sent") =>
                  (heap' # heap => \E u \in Callers \ {t} : Returns(u, task[u].op))
      ]_vars

\* a login has stored true after its response, and a fields call that ran
\* while the login was in flight read the value before the store
C18_Witness ==
    \E t, u \in Callers :
       /\ task[u].op = "authenticate"
       /\ task[u].status = "done"
       /\ task[u].response.transport = "ok"
       /\ task[u].result = Ok("unit")
       /\ is_authenticated
       /\ Gated(task[t])
       /\ task[t].status = "building"
       /\ ~task[t].gate

\* C19: once authenticate returns, with any outcome, the flag is true if
\* the call observed a cookie in its response and false otherwise; a login
\* that fails in the transport while the flag is true leaves it false.
C19_LoginAlwaysSetsFlag ==
    [][\A t \in Callers :
         Returns(t, "authenticate") =>
            (is_authenticated' <=>
               (task'[t].response.transport = "ok"
                /\ task'[t].response.cookies >= 1))]_vars

\* how each execute variant materializes the body of a success response
Materialized ==
    [execute |-> "json", execute_raw_text |-> "text", execute_bytes |-> "bytes"]

\* C20: execute, execute_raw_text and execute_bytes handle failure alike.
\* Whatever the variant: a builder marked requires_auth run while the flag
\* is false returns the same AuthenticationRequired("Endpoint") error and
\* sends nothing, any other builder is sent; a transport failure returns
\* the same RequestError; and a response with a failure status returns
\* what the typed variant returns for that status and body.  Only a
\* success response is treated per variant: as its own kind of value, or
\* as a RequestError from reading the body.
C20_VariantsShareFailureHandling ==
    [][\A t \in Callers :
         /\ ExecuteStep(t) =>
               IF task[t].builder.auth_required /\ ~is_authenticated
               THEN /\ task'[t].status = "done"
                    /\ task'[t].requests = 0
                    /\ task'[t].result =
                          AuthenticationRequired("Endpoint",
                             "The endpoint at '" \o task[t].builder.path
                                \o "' requires authentication.")
               ELSE /\ task'[t].status = "sent"
                    /\ task'[t].exec \in DOMAIN Materialized
                    /\ task'[t].request = request_of(task[t].builder)
         /\ (task[t].exec \in DOMAIN Materialized
              /\ Returns(t, task[t].op)) =>
               LET o == task'[t].response
                   r == task'[t].result
               IN  IF o.transport = "error" THEN r = RequestError("send")
                   ELSE IF ~is_success(o.status)
                        THEN r.tag = "Err" /\ r = handle_response(o)
                        ELSE \/ r = Ok(Materialized[task[t].exec])
                             \/ r.tag = "Err" /\ r.err = "RequestError"
      ]_vars

C20_Witness ==
    \E t \in Callers :
       /\ task[t].exec = "execute_bytes"
       /\ task[t].status = "done"
       /\ task[t].response.transport = "ok"
       /\ task[t].response.status = 404
       /\ task[t].response.body.shape = "envelope"
       /\ task[t].response.body.code = 1017
       /\ task[t].result = StoryNotFound
       /\ task[t].result = handle_response(task[t].response)

\* C21: the selection a fields call resolves to and sends holds every
\* field identifier at most once, whether it is the caller's list (a list
\* that repeats a field included) or the kind's default selection.
C21_SelectionHasNoDuplicates ==
    \A t \in Callers :
       LET tk == task[t]
           sel == Selection(tk)
       IN  (Gated(tk) /\ tk.status = "sent"
            /\ <<"fields", Wire(sel)>> \in Range(tk.request.query)) =>
              \A i, j \in 1..Len(sel) : sel[i].name = sel[j].name => i = j

\* the variants of StoryField
StoryFieldVariants == DOMAIN StoryFieldAsRef \cup DOMAIN StoryFieldDisplayArms

\* C22: get_story_info called with fields = None sends a selection in
\* which every variant of StoryField appears.
C22_StoryDefaultsHoldEveryVariant ==
    \A t \in Callers :
       LET tk == task[t]
           sel == Selection(tk)
       IN  (tk.op = "get_story_info" /\ tk.flds = None /\ tk.status = "sent"
            /\ <<"fields", Wire(sel)>> \in Range(tk.request.query)) =>
              \A n \in StoryFieldVariants :
                 \E i \in 1..Len(sel) : sel[i].name = n

\* the parameters of the builder that caller t holds (none for a caller
\* that is yet to create one)
ParamsHeld(t) ==
    IF task[t].status = "building" THEN task[t].builder.params ELSE <<>>

\* C23: a fields call that the gate rejects returns the error in that very
\* step: the call is over, its builder is gone with no fields parameter
\* added, no execute variant runs and no HTTP request is issued; a fields
\* call that the gate accepts appends exactly one fields parameter to the
\* parameters the builder had.
C23_GateErrorReturnedByFieldsStep ==
    [][\A t \in Callers :
         LET tk == task'[t]
             sel == Selection(tk)
         IN  /\ FieldsStep(t) =>
                  IF ~is_authenticated /\ Protected(sel) # {}
                  THEN /\ GateFailed(tk)
                       /\ tk.builder = NoBuilder
                       /\ tk.request = NoRequest
                       /\ tk.response = NoResponse
                       /\ tk.requests = 0
                  ELSE /\ tk.status = "building"
                       /\ tk.builder.params =
                             Append(ParamsHeld(t), <<"fields", Wire(sel)>>)
             /\ GateFailed(task[t]) =>
                  (tk = task[t] \/ tk.status = "idle")
      ]_vars

C23_Witness ==
    \E t \in Callers :
       /\ task[t].op = "builder"
       /\ task[t].flds = Some(<<Simple("PartStub", "Voted"),
                                Simple("PartStub", "Deleted")>>)
       /\ GateFailed(task[t])
       /\ task[t].response = NoResponse
       /\ task[t].result.field = "voted"
       /\ task[t].builder = NoBuilder
       /\ task[t].requests = 0

\* the call of tk has returned the endpoint check's error
EndpointFailed(tk) ==
    /\ tk.status = "done"
    /\ tk.result.tag = "Err"
    /\ tk.result.err = "AuthenticationRequired"
    /\ tk.result.field = "Endpoint"

\* C24: an execute variant started on a builder marked requires_auth while
\* the flag is false returns AuthenticationRequired whose context names the
\* builder's path, and issues no HTTP request; started on a marked builder
\* while the flag is true, or on an unmarked builder in either state, it
\* passes the endpoint check and sends the request.
C24_EndpointCheckFailsFast ==
    [][\A t \in Callers :
         LET tk == task'[t] IN
         ExecuteStep(t) =>
            /\ EndpointFailed(tk) <=>
                  (task[t].builder.auth_required /\ ~is_authenticated)
            /\ EndpointFailed(tk) =>
                  /\ tk.result.context =
                        "The endpoint at '" \o task[t].builder.path
                           \o "' requires authentication."
                  /\ tk.requests = 0
                  /\ tk.request = NoRequest
                  /\ tk.response = NoResponse
            /\ ~EndpointFailed(tk) => (tk.status = "sent" /\ tk.requests = 1)
      ]_vars

C24_Witness ==
    \E t \in Callers :
       /\ task[t].op = "builder"
       /\ ~is_authenticated
       /\ task[t].status = "done"
       /\ task[t].requests = 0
       /\ task[t].result =
             AuthenticationRequired("Endpoint",
                "The endpoint at '/api/v3/internal' requires authentication.")

\* C25: the endpoint requirement is decided by the flag's value when the
\* execute variant starts, not by its value when requires_auth was called:
\* requires_auth never ends the call, and an execute variant on a builder
\* on which requires_auth was called fails the endpoint check exactly when
\* the flag is false at that step.  So a builder marked while the flag was
\* false is sent once a login has stored true, and a builder marked while
\* the flag was true fails once a logout has stored false.
C25_EndpointCheckedAtExecution ==
    [][\A t \in Callers :
         /\ (task'[t].marked # task[t].marked /\ task'[t].marked.some) =>
               /\ task'[t].status = "building"
               /\ task'[t].builder.auth_required
         /\ ExecuteStep(t) =>
               /\ EndpointFailed(task'[t]) <=>
                     (task[t].marked.some /\ ~is_authenticated)
               /\ (task[t].marked = Some(FALSE) /\ is_authenticated) =>
                     task'[t].status = "sent"
               /\ (task[t].marked = Some(TRUE) /\ ~is_authenticated) =>
                     (EndpointFailed(task'[t]) /\ task'[t].requests = 0)
      ]_vars

\* a builder marked while the flag was true has failed the endpoint check
\* after another caller's logout stored false
C25_Witness ==
    \E t, u \in Callers :
       /\ EndpointFailed(task[t])
       /\ task[t].marked = Some(TRUE)
       /\ task[t].requests = 0
       /\ ~is_authenticated
       /\ task[u].op = "deauthenticate"
       /\ task[u].status = "done"
       /\ task[u].result = Ok("unit")

\* a builder marked while the flag was false has passed the endpoint check
\* and been sent after another caller's login stored true
C25_SentAfterLogin ==
    \E t, u \in Callers :
       /\ task[t].status = "sent"
       /\ task[t].marked = Some(FALSE)
       /\ task[t].requests = 1
       /\ task[u].op = "authenticate"
       /\ task[u].status = "done"
       /\ task[u].result = Ok("unit")

\* the entries a param or maybe_param call of the callers explored appends
ParamEntries == {<<kv[1], kv[2].val>> : kv \in {p \in ParamPool : p[2].some}}

\* C26: every builder operation either leaves the parameter list as it is
\* or appends one entry to it: the key and value of a param / maybe_param
\* call whose value is present, or the fields entry of a fields call that
\* passed the gate.  A call with an absent value leaves the list as it is
\* (no entry with an empty value), earlier entries are never removed or
\* reordered, and the request is sent with the list as built, in call
\* order (get_part_content_json: m, id, output).
C26_ParamsKeepCallOrder ==
    [][\A t \in Callers :
         /\ (task[t].status = "building" /\ task'[t].status = "building") =>
               LET old == task[t].builder.params
                   new_ == task'[t].builder.params
               IN  \/ new_ = old
                   \/ /\ ~FieldsStep(t)
                      /\ \E e \in ParamEntries : new_ = Append(old, e)
                   \/ /\ FieldsStep(t)
                      /\ new_ = Append(old, <<"fields", Wire(Selection(task'[t]))>>)
         /\ task'[t].status = "building" =>
               \A i \in 1..Len(task'[t].builder.params) :
                  task'[t].builder.params[i][2] # ""
         /\ ExecuteStep(t) /\ task'[t].status = "sent" =>
               task'[t].request.query = task[t].builder.params
         /\ (task'[t].op = "get_part_content_json" /\ task'[t].status = "sent") =>
               task'[t].request.query =
                  <<<<"m", "storytext">>, <<"id", "7">>, <<"output", "json">>>>
      ]_vars

C26_Witness ==
    \E t \in Callers :
       /\ task[t].op = "builder"
       /\ task[t].status = "sent"
       /\ task[t].request.query = <<<<"limit", "10">>, <<"fields", "id,deleted">>>>

\* the errors raised before any request: the two checks on the caller's
\* own state and input
PreFlightErrors == {"AuthenticationRequired", "MissingRequiredField"}

\* the errors that come from the transport, the response or its body
AfterRequestErrors ==
    {"RequestError", "ParseError", "AuthenticationFailed", "UserNotFound",
     "StoryNotFound", "PermissionDeniedNotLoggedIn", "AccessDenied",
     "ApiError"}

\* C27: a call that returns RequestError, ParseError, AuthenticationFailed,
\* UserNotFound, StoryNotFound, PermissionDeniedNotLoggedIn, AccessDenied
\* or ApiError has issued exactly one HTTP request and got the transport's
\* answer to it; a call that returns AuthenticationRequired or
\* MissingRequiredField has issued none.
C27_OnlyPreFlightErrorsSkipTheRequest ==
    \A t \in Callers :
       LET tk == task[t] IN
       (tk.status = "done" /\ tk.result.tag = "Err") =>
          /\ tk.result.err \in PreFlightErrors \cup AfterRequestErrors
          /\ tk.result.err \in AfterRequestErrors =>
                (tk.requests = 1 /\ tk.response # NoResponse)
          /\ tk.result.err \in PreFlightErrors =>
                (tk.requests = 0 /\ tk.response = NoResponse)

C27_Witness ==
    \E t \in Callers :
       /\ task[t].op = "get_user_info"
       /\ task[t].status = "done"
       /\ task[t].result = UserNotFound
       /\ task[t].response.transport = "ok"
       /\ task[t].response.body.code = 1014
       /\ task[t].requests = 1

\* caller t's authenticate or deauthenticate call writes the flag in this
\* step: it has received a response and returns
Writes(t, op) == Returns(t, op) /\ task'[t].response.transport = "ok"

\* C28: is_authenticated() is false for a newly built client and from then
\* on tells who wrote the flag last: a step in which an authenticate call
\* writes leaves it true exactly if the call observed a cookie, a step in
\* which a deauthenticate call writes leaves it false, and every other
\* step leaves it as it was.
C28_FlagTellsTheLastWrite ==
    /\ ~is_authenticated
    /\ [][(\A t \in Callers :
              /\ Writes(t, "authenticate") =>
                    (is_authenticated' <=> task'[t].response.cookies >= 1)
              /\ Writes(t, "deauthenticate") => ~is_authenticated')
          /\ ((\A t \in Callers : ~Writes(t, "authenticate")
                                   /\ ~Writes(t, "deauthenticate")) =>
                (is_authenticated' <=> is_authenticated))
        ]_vars

C28_Witness ==
    \E t \in Callers :
       /\ task[t].op = "authenticate"
       /\ task[t].status = "done"
       /\ task[t].response.transport = "ok"
       /\ task[t].response.cookies = 0
       /\ task[t].result = AuthenticationFailed
       /\ ~is_authenticated

\* C29: a call that marks its builder requires_auth and selects a
\* protected top-level field, all while the flag is false, ends in its
\* fields call with the field check's error: the error names the field's
\* wire token and not "Endpoint", and as no execute variant is reached the
\* endpoint check is not run and nothing is sent.
C29_FieldCheckComesFirst ==
    \A t \in Callers :
       LET tk == task[t]
           sel == Selection(tk)
       IN  (/\ tk.marked = Some(FALSE)
            /\ Gated(tk)
            /\ ~tk.gate
            /\ Protected(sel) # {}) =>
              /\ tk.status = "done"
              /\ GateFailed(tk)
              /\ ~EndpointFailed(tk)
              /\ \E i \in Protected(sel) :
                    tk.result.field = AsRefStr(tk.kind)[sel[i].name]
              /\ tk.result.context =
                    "The field '" \o tk.result.field \o "' requires authentication."
              /\ tk.requests = 0
              /\ tk.response = NoResponse

C29_Witness ==
    \E t \in Callers :
       /\ task[t].marked = Some(FALSE)
       /\ ~task[t].gate
       /\ task[t].flds = Some(<<Simple("PartStub", "Voted")>>)
       /\ task[t].status = "done"
       /\ task[t].result =
             AuthenticationRequired("voted",
                "The field 'voted' requires authentication.")
       /\ task[t].requests = 0

\* C30: with a login and a logout under way on one client at once, each
\* store is decided by the storing call's own response and by nothing
\* else: a login that receives a response stores true if it observed a
\* cookie and false if not, a logout that receives a response stores
\* false, whichever call began first, whichever request was sent first and
\* whether or not the other call has already returned; the other call is
\* left as it is.  The flag therefore holds what the last store put there.
C30_LastStoreWins ==
    [][\A t, u \in Callers :
         (/\ task[t].op = "authenticate"
          /\ task[u].op = "deauthenticate"
          /\ task[t].status \in {"sent", "done"}
          /\ task[u].status \in {"sent", "done"}) =>
            /\ Writes(t, "authenticate") =>
                  /\ is_authenticated' <=> task'[t].response.cookies >= 1
                  /\ task'[u] = task[u]
            /\ Writes(u, "deauthenticate") =>
                  /\ ~is_authenticated'
                  /\ task'[t] = task[t]
            /\ (\A w \in Callers : /\ ~Writes(w, "authenticate")
                                   /\ ~Writes(w, "deauthenticate")) =>
                  (is_authenticated' <=> is_authenticated)
      ]_vars

\* a logout that began while a login was awaiting its response has
\* returned Ok, and the flag is true: that login, begun before the logout,
\* received its cookie-bearing response after the logout's store
C30_Witness ==
    \E t, u \in Callers :
       /\ task[t].op = "authenticate"
       /\ task[u].op = "deauthenticate"
       /\ task[t].overtaken
       /\ task[t].status = "done"
       /\ task[t].result = Ok("unit")
       /\ task[t].response.cookies >= 1
       /\ task[u].status = "done"
       /\ task[u].result = Ok("unit")
       /\ is_authenticated

====
